---------------------------- MODULE Spec2Model ----------------------------
(***************************************************************************)
(* A model of src/src/main.cpp: the overlap classifiers, the hierarchical  *)
(* contour extractor, the area histogram binner, and the batch loop of     *)
(* main with processImage.                                                 *)
(*                                                                         *)
(* Five specifications share the module's variables:                       *)
(*   SpecClassify  one call of classifyMicroglialCells/classifyNeuralCells *)
(*   SpecContour   one call of contourCalc followed by binArea             *)
(*   SpecEnhance   one call of enhanceImage and its caller's test          *)
(*   SpecNuclei    the nuclei counts of one row: both classifiers in turn  *)
(*   Spec          main: startup, the batch loop and processImage          *)
(* Each leaves the variables of the others at their idle values.           *)
(*                                                                         *)
(* Library primitives (arcLength, drawContours, countNonZero, contourArea, *)
(* findContours, imread) are not in the repository; their results are the  *)
(* inputs of the model, drawn from small sets.                             *)
(***************************************************************************)
EXTENDS Integers, Sequences, FiniteSets, TLC

(***************************************************************************)
(* Bounds of the model                                                     *)
(***************************************************************************)
\* longest candidate list handed to a classifier
MaxCands == 2
\* rasterised pixel counts are sampled at multiples of PixelStep ...
PixelStep == 5
\* ... up to MaxSteps * PixelStep
MaxSteps == 2
\* most contours findContours reports for one mask
MaxContours == 3
\* longest manifest (image_list.dat)
MaxImages == 2
\* most depth layers of an image that loads completely
MaxLayers == 3
\* largest number of layers combined per group that is tried
MaxCombined == 2

(***************************************************************************)
(* Program constants                                                       *)
(***************************************************************************)
\* arcLength(...) < 10
MIN_ARC_LENGTH == 10
\* blue_contours[i].size() < 5
MIN_POINTS == 5
\* #define NUM_AREA_BINS 21
NUM_AREA_BINS == 21
\* #define BIN_AREA 25
BIN_AREA == 25
\* min_area = 1.0 at every call of contourCalc, in half units of area
MIN_AREA_HALVES == 2
\* #define NUM_Z_LAYERS_COMBINED 1
NUM_Z_LAYERS_COMBINED == 1
\* uint8_t z_count, z_index: values 0..255
UINT8_RANGE == 256
\* z_count < 10 and z_index < 10 choose the file name pattern
TWO_DIGITS == 10
\* z_index < 100, else "Does not support more than 99 z layers"
THREE_DIGITS == 100

VARIABLES
    \* ---- classifier call (classifyMicroglialCells / classifyNeuralCells)
    kind,             \* which classifier runs: "microglial" or "neural"
    blue_contours,    \* the candidate list (argument), a sequence of contours
    ci,               \* loop variable i, as the 1-based position of the next contour
    target_contours,  \* *microglial_contours / *neural_contours, as positions of blue_contours
    other_contours,   \* *other_contours, as positions of blue_contours
    ratio_done,       \* positions for which coverage_ratio was computed (history)
    \* ---- contourCalc followed by binArea
    hpc,              \* position: "idle", "call", "loop", "bin", "emit", "done"
    channel_type,     \* the channel_type argument of contourCalc
    hierarchy,        \* *hierarchy: contour index -> <<next, previous, first child, parent>>
    area,             \* fabs(contourArea(contour)) per contour index, in half units
    validity_mask,    \* *validity_mask: contour index -> label (empty until assigned)
    parent_area,      \* *parent_area: contour index -> net area in half units
    index,            \* loop variable of contourCalc (index) and of binArea (i)
    count,            \* binArea: count[0..NUM_AREA_BINS-1]
    bin_log,          \* binArea: contour index -> bin_index it was counted in (history)
    contour_cnt,      \* *contour_cnt
    contour_bins,     \* *contour_bins, as the sequence of numbers printed
    \* ---- main and processImage
    pc,               \* position in main / processImage
    startup,          \* main: which of argc, the manifest, the error log and the
                      \* metrics file were in order when main started (history)
    layers_combined,  \* the value NUM_Z_LAYERS_COMBINED is compiled with
    input_images,     \* main: the manifest, in order
    main_index,       \* main: loop variable index, 0-based
    err_list,         \* the lines written to err_stream
    metrics,          \* the rows written to computed_metrics.csv: the image name and
                      \* the group number of the row's key, and the manifest
                      \* position of the call that wrote it (history; 0 for main)
    exit_status,      \* the value main returns ("none" while it runs)
    attempted,        \* image names processImage was called with (history)
    result,           \* the value of the last finished processImage call
    outcomes,         \* the values of the finished processImage calls, in order (history)
    entries,          \* directory entries counted by the current call (history)
    z_count,          \* processImage: uint8_t z_count
    z_index,          \* processImage: uint8_t z_index of the current loop
    merged_layer_count, \* processImage: uint8_t merged_layer_count
    merge,            \* processImage: blue_merge .. red_high_merge, channel -> pixel set
    enhanced_log,     \* layer -> the masks enhanceImage returned for it (history)
    group_log,        \* per emitted layer group, the merged masks it used (history)
    \* ---- enhanceImage and the statement that calls it
    epc,              \* position: "idle", "call", "returned", "done"
    e_channel,        \* the channel_type argument of enhanceImage
    e_src,            \* the src argument: layer z of the stack and whether it shares pixels
    e_dst,            \* the Mat dst points to, a pixel set
    e_before,         \* the Mat dst pointed to when the call was made (history)
    e_ret,            \* the value enhanceImage returned
    e_caller,         \* what the calling statement did: "none", "return false", "continue"
    \* ---- the nuclei counts of one row, processImage lines 484-504
    nstage,           \* position: "idle", "microglial", "neural", "done"
    contours_blue,    \* processImage: contours_blue, the list handed to the first classifier
    pi_microglial,    \* processImage: microglial_contours, as positions of contours_blue
    pi_other,         \* processImage: other_contours, as positions of contours_blue
    row               \* the count fields written to data_stream so far

cvars == <<kind, blue_contours, ci, target_contours, other_contours, ratio_done>>

hvars == <<hpc, channel_type, hierarchy, area, validity_mask, parent_area, index,
           count, bin_log, contour_cnt, contour_bins>>

mvars == <<pc, startup, layers_combined, input_images, main_index, err_list, metrics,
           exit_status, attempted, result, outcomes, entries, z_count, z_index,
           merged_layer_count, merge, enhanced_log, group_log>>

evars == <<epc, e_channel, e_src, e_dst, e_before, e_ret, e_caller>>

nvars == <<nstage, contours_blue, pi_microglial, pi_other, row>>

vars == <<cvars, hvars, mvars, evars, nvars>>

(***************************************************************************)
(* Overlap classifiers, main.cpp:195-250                                   *)
(*                                                                         *)
(* A contour is represented by what the library reports of it: its closed  *)
(* arc length, its number of points, the pixel count of its rasterisation  *)
(* alone (before) and of that rasterisation ANDed with the intersection    *)
(* mask (after <= before). The output vectors receive copies of            *)
(* blue_contours[i]; the model stores the position i.                      *)
(***************************************************************************)
PixelCounts == {k * PixelStep : k \in 0..MaxSteps}

ArcLengths == {8, MIN_ARC_LENGTH}

PointCounts == {4, MIN_POINTS}

\* the small-contour test of line 203 / 232
IsSmallContour(c) == (c.arc < MIN_ARC_LENGTH) \/ (c.npts < MIN_POINTS)

\* Candidate contours. The code never rasterises a small contour, so its
\* pixel counts are fixed at a full overlap.
Contours ==
    {c \in [arc : ArcLengths, npts : PointCounts,
            before : PixelCounts, after : 0..(MaxSteps * PixelStep)] :
        /\ c.after <= c.before
        /\ IsSmallContour(c) => (c.before = MaxSteps * PixelStep /\ c.after = c.before)}

\* ((float)after)/before < 0.30 for before > 0. The quotient is rounded to the
\* nearest float (24-bit significand) and widened to double for the comparison
\* with the double 0.30. The largest float below the double 0.30 is
\* 10066329 * 2^-25, and a quotient rounds to it or below exactly when it is
\* below the midpoint 20132659 * 2^-26 (a tie rounds to the even 10066330).
FloatRatioBelow30(after, before) ==
    after <= (20132659 * before - 1) \div 67108864

\* ((float)after)/before < 0.20 for before > 0. The largest float below the
\* double 0.20 is 13421772 * 2^-26; a quotient rounds to it or below exactly
\* when it is at most the midpoint 26843545 * 2^-27 (a tie rounds to the even
\* 13421772).
FloatRatioBelow20(after, before) ==
    after <= (26843545 * before) \div 134217728

\* coverage_ratio < threshold, lines 214-215 and 243-244. With before = 0 the
\* quotient 0.0f/0 is undefined by the language; an IEEE-754 build yields NaN,
\* whose comparison is false, and a build that assumes finite arithmetic may
\* yield either outcome: undef is the outcome the build produces.
CoverageBelowSwapped(k, c, undef) ==
    IF c.before = 0 THEN undef
    ELSE IF k = "microglial" THEN FloatRatioBelow20(c.after, c.before)
    ELSE FloatRatioBelow30(c.after, c.before)

CoverageBelow(k, c, undef) ==
    IF c.before = 0 THEN undef
    ELSE IF k = "microglial" THEN FloatRatioBelow30(c.after, c.before)
    ELSE FloatRatioBelow20(c.after, c.before)

\* the bucket of one contour, lines 203 and 215-219 (232 and 244-248):
\* "none" for a contour the loop skips with continue
BucketSmallToOther(k, c, undef) ==
    IF IsSmallContour(c) THEN "other"
    ELSE IF CoverageBelow(k, c, undef) THEN "other" ELSE "target"

Bucket(k, c, undef) ==
    IF IsSmallContour(c) THEN "none"
    ELSE IF CoverageBelow(k, c, undef) THEN "other" ELSE "target"

\* one iteration of the for loop of line 200 / 229
ClassifyBody(undef) ==
    LET c == blue_contours[ci]
        b == Bucket(kind, c, undef)
    IN
    /\ ci' = ci + 1
    /\ ratio_done' = IF IsSmallContour(c) THEN ratio_done ELSE ratio_done \cup {ci}
    /\ other_contours' = IF b = "other" THEN Append(other_contours, ci) ELSE other_contours
    /\ target_contours' = IF b = "target" THEN Append(target_contours, ci) ELSE target_contours
    /\ UNCHANGED <<kind, blue_contours>>

ClassifyStep ==
    /\ kind # "idle"
    /\ ci <= Len(blue_contours)
    /\ \E undef \in BOOLEAN : ClassifyBody(undef)

\* the loop condition fails and the function returns
ClassifyReturn ==
    /\ kind # "idle"
    /\ ci = Len(blue_contours) + 1
    /\ ci' = ci + 1
    /\ UNCHANGED <<kind, blue_contours, target_contours, other_contours, ratio_done>>

ClassifyDone == kind # "idle" /\ ci = Len(blue_contours) + 2

(***************************************************************************)
(* contourCalc, main.cpp:127-192                                           *)
(*                                                                         *)
(* findContours is the library's: the model draws its result, a contour    *)
(* list with a well-formed hierarchy. Contour indices are 0-based as in    *)
(* the code and -1 is "none". RETR_EXTERNAL reports outer boundaries only; *)
(* RETR_CCOMP reports two levels, outer boundaries and their holes.        *)
(* contourArea is a multiple of 0.5, so areas are kept in half units and   *)
(* the double arithmetic on them is exact.                                 *)
(***************************************************************************)
ChannelTypes == {"BLUE", "GREEN", "RED", "RED_LOW", "RED_HIGH"}

\* the switch of lines 136-151
RetrievalMode(ch) ==
    IF ch \in {"BLUE", "GREEN"} THEN "RETR_EXTERNAL" ELSE "RETR_CCOMP"

\* areas in half units: 0, 0.5, 1, 25, 100, 400, 550
AreaValues == {0, 1, 2, 50, 200, 800, 1100}

NumContours(h) == Cardinality(DOMAIN h)

\* the parent link of every contour, for a two-level hierarchy
ParentMaps(n, mode) ==
    {p \in [0..(n - 1) -> -1..(n - 1)] :
        /\ mode = "RETR_EXTERNAL" => \A i \in 0..(n - 1) : p[i] = -1
        /\ \A i \in 0..(n - 1) : p[i] # -1 => (p[i] # i /\ p[p[i]] = -1)}

RECURSIVE SumOver(_, _)
SumOver(f, S) ==
    IF S = {} THEN 0
    ELSE LET x == CHOOSE y \in S : TRUE IN f[x] + SumOver(f, S \ {x})

MinOf(S) == CHOOSE x \in S : \A y \in S : x <= y

MaxOf(S) == CHOOSE x \in S : \A y \in S : x >= y

\* the four links findContours reports for a parent map: the contours of one
\* parent (and the top-level contours) are chained in index order
HierarchyOf(p) ==
    [i \in DOMAIN p |->
        LET later == {j \in DOMAIN p : p[j] = p[i] /\ j > i}
            earlier == {j \in DOMAIN p : p[j] = p[i] /\ j < i}
            children == {j \in DOMAIN p : p[j] = i}
        IN <<IF later = {} THEN -1 ELSE MinOf(later),
             IF earlier = {} THEN -1 ELSE MaxOf(earlier),
             IF children = {} THEN -1 ELSE MinOf(children),
             p[i]>>]

\* (*hierarchy)[i][0], [2] and [3]
NextSibling(h, i) == h[i][1]

FirstChild(h, i) == h[i][3]

ParentOf(h, i) == h[i][4]

\* the while loop of lines 171-179: the holes with nonzero area met from
\* index_hole on, in order, and the sum of their areas
RECURSIVE HoleWalk(_, _, _)
HoleWalk(h, a, index_hole) ==
    IF index_hole = -1 THEN [list |-> <<>>, area_hole |-> 0]
    ELSE LET rest == HoleWalk(h, a, NextSibling(h, index_hole)) IN
         IF a[index_hole] # 0
         THEN [list |-> <<index_hole>> \o rest.list,
               area_hole |-> a[index_hole] + rest.area_hole]
         ELSE rest

\* the holes of a contour lie inside it and apart from each other, so their
\* areas add up to at most the area of the outer boundary
HolesFit(h, a) ==
    \A i \in DOMAIN h :
        ParentOf(h, i) = -1 =>
            LET S == {j \in DOMAIN h : ParentOf(h, j) = i} IN
            SumOver(a, S) <= a[i]

\* area_contour >= min_area, line 181
AcceptsStrictly(area_contour, min_area) == area_contour > min_area

Accepts(area_contour, min_area) == area_contour >= min_area

\* area_contour = area_external - area_hole, line 180
NetAreaIgnoringHoles(area_external, area_hole) == area_external

NetArea(area_external, area_hole) == area_external - area_hole

\* findContours, the early return of line 154 and the two assign calls
CalcStart ==
    /\ hpc = "call"
    /\ index' = 0
    /\ IF NumContours(hierarchy) = 0
       THEN /\ hpc' = IF RetrievalMode(channel_type) = "RETR_CCOMP" THEN "bin" ELSE "done"
            /\ UNCHANGED <<validity_mask, parent_area>>
       ELSE /\ hpc' = "loop"
            /\ validity_mask' = [i \in DOMAIN hierarchy |-> "INVALID_CNTR"]
            /\ parent_area' = [i \in DOMAIN hierarchy |-> 0]
    /\ UNCHANGED <<channel_type, hierarchy, area, count, bin_log, contour_cnt, contour_bins>>

\* the labels and the area after the body of the for loop has run for index
CalcBodyMaskNoChildSkip ==
    LET walk == HoleWalk(hierarchy, area, FirstChild(hierarchy, index))
        area_contour == NetArea(area[index], walk.area_hole)
        holes == {walk.list[k] : k \in 1..Len(walk.list)}
    IN
    IF area[index] < MIN_AREA_HALVES THEN validity_mask
    ELSE IF Accepts(area_contour, MIN_AREA_HALVES)
         THEN [i \in DOMAIN validity_mask |->
                  IF i = index THEN "PARENT_CNTR"
                  ELSE IF i \in holes THEN "CHILD_CNTR"
                  ELSE validity_mask[i]]
         ELSE validity_mask

CalcBodyMask ==
    LET walk == HoleWalk(hierarchy, area, FirstChild(hierarchy, index))
        area_contour == NetArea(area[index], walk.area_hole)
        holes == {walk.list[k] : k \in 1..Len(walk.list)}
    IN
    IF ParentOf(hierarchy, index) > -1 THEN validity_mask
    ELSE IF area[index] < MIN_AREA_HALVES THEN validity_mask
    ELSE IF Accepts(area_contour, MIN_AREA_HALVES)
         THEN [i \in DOMAIN validity_mask |->
                  IF i = index THEN "PARENT_CNTR"
                  ELSE IF i \in holes THEN "CHILD_CNTR"
                  ELSE validity_mask[i]]
         ELSE validity_mask

CalcBodyArea ==
    LET walk == HoleWalk(hierarchy, area, FirstChild(hierarchy, index))
        area_contour == NetArea(area[index], walk.area_hole)
    IN
    IF ParentOf(hierarchy, index) > -1 THEN parent_area
    ELSE IF area[index] < MIN_AREA_HALVES THEN parent_area
    ELSE IF Accepts(area_contour, MIN_AREA_HALVES)
         THEN [parent_area EXCEPT ![index] = area_contour]
         ELSE parent_area

\* one iteration of the for loop of lines 160-191
CalcStep ==
    /\ hpc = "loop"
    /\ index < NumContours(hierarchy)
    /\ validity_mask' = CalcBodyMask
    /\ parent_area' = CalcBodyArea
    /\ index' = index + 1
    /\ UNCHANGED <<hpc, channel_type, hierarchy, area, count, bin_log, contour_cnt, contour_bins>>

\* the loop ends and contourCalc returns. processImage hands the labels and
\* areas of the red channels to binArea (lines 509, 532, 539, 545), whose
\* lines 258-259 set up the counters; those of BLUE and GREEN are not binned.
CalcReturn ==
    /\ hpc = "loop"
    /\ index = NumContours(hierarchy)
    /\ hpc' = IF RetrievalMode(channel_type) = "RETR_CCOMP" THEN "bin" ELSE "done"
    /\ index' = 0
    /\ UNCHANGED <<channel_type, hierarchy, area, validity_mask, parent_area,
                   count, bin_log, contour_cnt, contour_bins>>

(***************************************************************************)
(* binArea, main.cpp:253-272                                               *)
(***************************************************************************)
\* round(contour_area[i]) converted to unsigned int: half away from zero, for
\* the non-negative areas contourCalc stores
RoundedDown(a) == a \div 2

Rounded(a) == (a + 1) \div 2

\* lines 263-264
BinIndexUnclamped(r) == r \div BIN_AREA

BinIndex(r) ==
    IF r \div BIN_AREA < NUM_AREA_BINS THEN r \div BIN_AREA ELSE NUM_AREA_BINS - 1

\* the column labels of the header row, main lines 651-656: bin i is labelled
\* "i*BIN_AREA <= area < (i+1)*BIN_AREA", the last ">= (NUM_AREA_BINS-1)*BIN_AREA"
HeaderLow(i) == i * BIN_AREA

HeaderHigh(i) == (i + 1) * BIN_AREA

LastHeaderLow == (NUM_AREA_BINS - 1) * BIN_AREA

\* one iteration of the for loop of lines 260-266; the mask is empty when
\* contourCalc returned early
BinStep ==
    /\ hpc = "bin"
    /\ index < Cardinality(DOMAIN validity_mask)
    /\ index' = index + 1
    /\ IF validity_mask[index] # "PARENT_CNTR"
       THEN UNCHANGED <<count, bin_log>>
       ELSE LET bin_index == BinIndex(Rounded(parent_area[index])) IN
            /\ count' = [b \in DOMAIN count \cup {bin_index} |->
                            IF b = bin_index
                            THEN (IF b \in DOMAIN count THEN count[b] ELSE 0) + 1
                            ELSE count[b]]
            /\ bin_log' = [i \in DOMAIN bin_log \cup {index} |->
                              IF i = index THEN bin_index ELSE bin_log[i]]
    /\ UNCHANGED <<hpc, channel_type, hierarchy, area, validity_mask, parent_area,
                   contour_cnt, contour_bins>>

\* the first loop of binArea ends
BinLoopEnd ==
    /\ hpc = "bin"
    /\ index = Cardinality(DOMAIN validity_mask)
    /\ hpc' = "emit"
    /\ UNCHANGED <<channel_type, hierarchy, area, validity_mask, parent_area, index,
                   count, bin_log, contour_cnt, contour_bins>>

RECURSIVE SumTo(_, _)
SumTo(c, n) == IF n < 0 THEN 0 ELSE c[n] + SumTo(c, n - 1)

\* the loop of lines 268-271 over count[0 .. count.size()-1]
BinEmit ==
    /\ hpc = "emit"
    /\ hpc' = "done"
    /\ contour_cnt' = SumTo(count, NUM_AREA_BINS - 1)
    /\ contour_bins' = [k \in 1..NUM_AREA_BINS |-> count[k - 1]]
    /\ UNCHANGED <<channel_type, hierarchy, area, validity_mask, parent_area, index,
                   count, bin_log>>

(***************************************************************************)
(* main and processImage, main.cpp:275-698                                 *)
(*                                                                         *)
(* The file system and the decoder are the environment: whether a stream,  *)
(* a directory or a layer file opens, and how many entries a directory     *)
(* holds, are drawn at the step that asks. A mask is a set of pixels; the  *)
(* mask enhanceImage returns for layer z of a channel holds a pixel of its *)
(* own, <<channel, z>>, and may hold a pixel <<channel, -1>> it shares     *)
(* with the other layers. <<"BLUE", -2>> is a pixel of an ellipse outline. *)
(***************************************************************************)
ImageNames == {"a", "b"}

Manifests == UNION {[1..n -> ImageNames] : n \in 0..MaxImages}

\* directory sizes: the stacks that load completely, and sizes beyond 99
EntryCounts == (0..MaxLayers) \cup {100, 255, 256, 257}

\* uint8_t arithmetic
Uint8(n) == n % UINT8_RANGE

\* enhanceImage for one of the five channel specifiers of the enum, lines
\* 38-124: the mask written to *dst
EnhancedMask(ch, z, shared) ==
    {<<ch, z>>} \cup (IF shared THEN {<<ch, -1>>} ELSE {})

\* the values a ChannelType can hold: the five enumerators of lines 22-28
\* and values of its unsigned char that name no enumerator
ChannelSpecifiers == ChannelTypes \cup {"UNNAMED_5", "UNNAMED_255"}

\* enhanceImage, lines 38-124: the value returned and the Mat dst points to
\* afterwards; the default label returns before line 122 assigns *dst
EnhanceImageFallsThrough(ch, z, shared, dst) ==
    IF ch \in ChannelTypes
    THEN [ret |-> TRUE, dst |-> EnhancedMask(ch, z, shared)]
    ELSE [ret |-> TRUE, dst |-> {}]

EnhanceImage(ch, z, shared, dst) ==
    IF ch \in ChannelTypes
    THEN [ret |-> TRUE, dst |-> EnhancedMask(ch, z, shared)]
    ELSE [ret |-> FALSE, dst |-> dst]

\* the five calls of lines 364-378, each on a fresh local Mat
EnhanceLayerUnnamedSpecifier(z, shared) ==
    [ch \in ChannelTypes |->
        EnhanceImage(IF ch = "RED_HIGH" /\ z > 0 THEN "UNNAMED_5" ELSE ch, z, shared, {})]

EnhanceLayer(z, shared) ==
    [ch \in ChannelTypes |-> EnhanceImage(ch, z, shared, {})]

\* lines 379-391: bitwise_or into the running merge, or a fresh start of it
MergeWithoutRestart(old, enhanced, z) ==
    [ch \in ChannelTypes |-> enhanced[ch] \cup old[ch]]

MergeStep(old, enhanced, z) ==
    IF z % layers_combined # 0
    THEN [ch \in ChannelTypes |-> enhanced[ch] \cup old[ch]]
    ELSE enhanced

\* line 393: the layer closes its group
GroupEnds(z) == ((z + 1) % layers_combined = 0) \/ (z + 1 = z_count)

NoMerge == [ch \in ChannelTypes |-> {}]

\* the local variables of processImage before it runs and after it returns
\* (entries, a history of the call, is kept until main has handled the return)
LocalsCleared ==
    /\ z_count' = 0
    /\ z_index' = 0
    /\ merged_layer_count' = 0
    /\ merge' = NoMerge
    /\ enhanced_log' = <<>>
    /\ group_log' = <<>>

\* return from processImage with value r
PiReturn(r) ==
    /\ pc' = "returned"
    /\ result' = r
    /\ LocalsCleared

\* main lines 607-646: main goes on to the header only if the argument count
\* is 2 and the manifest, the error log and the metrics file all opened
StartupSkipsErrLogTest(argc_ok, list_ok, err_ok, metrics_ok) ==
    argc_ok /\ list_ok /\ metrics_ok

StartupProceeds(argc_ok, list_ok, err_ok, metrics_ok) ==
    argc_ok /\ list_ok /\ err_ok /\ metrics_ok

\* main lines 607-686: the argument count, the manifest, the error log and
\* the metrics file with its header row; return -1 at the first that fails
MainStartup ==
    /\ pc = "start"
    /\ \E argc_ok, list_ok, err_ok, metrics_ok \in BOOLEAN :
          /\ startup' = [argc |-> argc_ok, manifest |-> list_ok,
                         err_log |-> err_ok, metrics_file |-> metrics_ok]
          /\ IF StartupProceeds(argc_ok, list_ok, err_ok, metrics_ok)
             THEN /\ pc' = "loop"
                  /\ metrics' = <<[image |-> "header", layer |-> 0, call |-> 0]>>
                  /\ UNCHANGED exit_status
             ELSE /\ pc' = "exit"
                  /\ exit_status' = -1
                  /\ UNCHANGED metrics
    /\ UNCHANGED <<layers_combined, input_images, main_index, err_list, attempted,
                   result, outcomes, entries, z_count, z_index, merged_layer_count,
                   merge, enhanced_log, group_log>>

\* main lines 689-691: the loop condition holds and processImage is called
MainCall ==
    /\ pc = "loop"
    /\ main_index < Len(input_images)
    /\ pc' = "pi_open"
    /\ attempted' = Append(attempted, input_images[main_index + 1])
    /\ UNCHANGED <<startup, layers_combined, input_images, main_index, err_list, metrics,
                   exit_status, result, outcomes, entries, z_count, z_index,
                   merged_layer_count, merge, enhanced_log, group_log>>

\* the error log entry main writes for a call that returned r, lines 691-693
ErrListNeverWritten(r) == err_list

ErrListAfter(r) ==
    IF ~r THEN Append(err_list, input_images[main_index + 1]) ELSE err_list

\* main lines 691-694: the call returned; log a failure; index++
MainAfterCall ==
    /\ pc = "returned"
    /\ err_list' = ErrListAfter(result)
    /\ main_index' = main_index + 1
    /\ pc' = "loop"
    /\ outcomes' = Append(outcomes, result)
    /\ entries' = 0
    /\ UNCHANGED <<startup, layers_combined, input_images, metrics, exit_status, attempted,
                   result, z_count, z_index, merged_layer_count, merge,
                   enhanced_log, group_log>>

\* main lines 695-697: the loop is over; return 0
MainExit ==
    /\ pc = "loop"
    /\ main_index = Len(input_images)
    /\ pc' = "exit"
    /\ exit_status' = 0
    /\ UNCHANGED <<startup, layers_combined, input_images, main_index, err_list, metrics,
                   attempted, result, outcomes, entries, z_count, z_index,
                   merged_layer_count, merge, enhanced_log, group_log>>

\* processImage lines 278-283: open the metrics file for appending
PiOpenData ==
    /\ pc = "pi_open"
    /\ \/ /\ pc' = "pi_opendir"
          /\ UNCHANGED <<result, z_count, z_index, merged_layer_count,
                         merge, enhanced_log, group_log>>
       \/ PiReturn(FALSE)
    /\ UNCHANGED <<startup, layers_combined, input_images, main_index, err_list, metrics,
                   exit_status, attempted, outcomes, entries>>

\* processImage lines 286-301: open the directory and count its entries in
\* the 8-bit z_count (lines 303-315 create directories and size the vectors)
PiCountLayers ==
    /\ pc = "pi_opendir"
    /\ \/ \E c \in EntryCounts :
             /\ entries' = c
             /\ z_count' = Uint8(c)
             /\ z_index' = 1
             /\ pc' = "pi_load"
             /\ UNCHANGED <<result, merged_layer_count, merge, enhanced_log, group_log>>
       \/ PiReturn(FALSE) /\ UNCHANGED entries
    /\ UNCHANGED <<startup, layers_combined, input_images, main_index, err_list, metrics,
                   exit_status, attempted, outcomes>>

\* line 320-330: a file name exists for layer z_index
HasFileName(zc, zi) ==
    IF zc < TWO_DIGITS THEN TRUE
    ELSE IF zi < TWO_DIGITS THEN TRUE
    ELSE zi < THREE_DIGITS

\* one iteration of the loading loop, lines 316-352
PiLoadLayer ==
    /\ pc = "pi_load"
    /\ z_index <= z_count
    /\ \/ /\ ~HasFileName(z_count, z_index)
          /\ PiReturn(FALSE)
       \/ /\ HasFileName(z_count, z_index)
          /\ \/ PiReturn(FALSE)                  \* img.empty()
             \/ /\ z_index' = Uint8(z_index + 1)
                /\ UNCHANGED <<pc, result, z_count, merged_layer_count,
                               merge, enhanced_log, group_log>>
    /\ UNCHANGED <<startup, layers_combined, input_images, main_index, err_list, metrics,
                   exit_status, attempted, outcomes, entries>>

\* the loading loop ends; lines 357-360 start the merging loop
PiLoadEnd ==
    /\ pc = "pi_load"
    /\ z_index > z_count
    /\ pc' = "pi_merge"
    /\ z_index' = 0
    /\ merged_layer_count' = 0
    /\ UNCHANGED <<startup, layers_combined, input_images, main_index, err_list, metrics,
                   exit_status, attempted, result, outcomes, entries, z_count, merge,
                   enhanced_log, group_log>>

\* one iteration of the merging loop, lines 360-598: enhance the five
\* channels of layer z_index and return false if a call fails; merge them,
\* and when the layer closes a group analyse the merged masks, write the
\* group's row and draw the ellipses of the classified cells into
\* drawing_blue, which shares blue_merge's pixels
PiMergeLayer ==
    /\ pc = "pi_merge"
    /\ z_index < z_count
    /\ \E shared, ellipse \in BOOLEAN :
          LET calls == EnhanceLayer(z_index, shared)
              enhanced == [ch \in ChannelTypes |-> calls[ch].dst]
              merged == MergeStep(merge, enhanced, z_index)
          IN
          IF \E ch \in ChannelTypes : ~calls[ch].ret
          THEN /\ PiReturn(FALSE)
               /\ UNCHANGED metrics
          ELSE /\ enhanced_log' = [z \in 0..z_index |->
                                      IF z = z_index THEN enhanced ELSE enhanced_log[z]]
               /\ IF GroupEnds(z_index)
                  THEN /\ merged_layer_count' = Uint8(merged_layer_count + 1)
                       /\ group_log' = Append(group_log, merged)
                       /\ metrics' = Append(metrics,
                                        [image |-> input_images[main_index + 1],
                                         layer |-> Uint8(merged_layer_count + 1),
                                         call |-> main_index + 1])
                       /\ merge' = IF ellipse
                                   THEN [merged EXCEPT !["BLUE"] = @ \cup {<<"BLUE", -2>>}]
                                   ELSE merged
                  ELSE /\ merge' = merged
                       /\ UNCHANGED <<merged_layer_count, group_log, metrics>>
               /\ z_index' = Uint8(z_index + 1)
               /\ UNCHANGED <<pc, result, z_count>>
    /\ UNCHANGED <<startup, layers_combined, input_images, main_index, err_list,
                   exit_status, attempted, outcomes, entries>>

\* the merging loop ends, lines 599-600
PiMergeEnd ==
    /\ pc = "pi_merge"
    /\ z_index = z_count
    /\ PiReturn(TRUE)
    /\ UNCHANGED <<startup, layers_combined, input_images, main_index, err_list, metrics,
                   exit_status, attempted, outcomes, entries>>

Next ==
    \/ MainStartup /\ UNCHANGED <<cvars, hvars, evars, nvars>>
    \/ MainCall /\ UNCHANGED <<cvars, hvars, evars, nvars>>
    \/ MainAfterCall /\ UNCHANGED <<cvars, hvars, evars, nvars>>
    \/ MainExit /\ UNCHANGED <<cvars, hvars, evars, nvars>>
    \/ PiOpenData /\ UNCHANGED <<cvars, hvars, evars, nvars>>
    \/ PiCountLayers /\ UNCHANGED <<cvars, hvars, evars, nvars>>
    \/ PiLoadLayer /\ UNCHANGED <<cvars, hvars, evars, nvars>>
    \/ PiLoadEnd /\ UNCHANGED <<cvars, hvars, evars, nvars>>
    \/ PiMergeLayer /\ UNCHANGED <<cvars, hvars, evars, nvars>>
    \/ PiMergeEnd /\ UNCHANGED <<cvars, hvars, evars, nvars>>

\* main starts; no classifier or contourCalc call is modelled on its own
Init ==
    /\ pc = "start"
    /\ startup = [argc |-> TRUE, manifest |-> TRUE, err_log |-> TRUE, metrics_file |-> TRUE]
    /\ layers_combined \in NUM_Z_LAYERS_COMBINED..MaxCombined
    /\ input_images \in Manifests
    /\ main_index = 0
    /\ err_list = <<>>
    /\ metrics = <<>>
    /\ exit_status = "none"
    /\ attempted = <<>>
    /\ result = TRUE
    /\ outcomes = <<>>
    /\ entries = 0
    /\ z_count = 0
    /\ z_index = 0
    /\ merged_layer_count = 0
    /\ merge = NoMerge
    /\ enhanced_log = <<>>
    /\ group_log = <<>>
    /\ kind = "idle"
    /\ blue_contours = <<>>
    /\ ci = 1
    /\ target_contours = <<>>
    /\ other_contours = <<>>
    /\ ratio_done = {}
    /\ hpc = "idle"
    /\ channel_type = "BLUE"
    /\ hierarchy = <<>>
    /\ area = <<>>
    /\ validity_mask = <<>>
    /\ parent_area = <<>>
    /\ index = 0
    /\ count = <<>>
    /\ bin_log = <<>>
    /\ contour_cnt = 0
    /\ contour_bins = <<>>
    /\ epc = "idle"
    /\ e_channel = "BLUE"
    /\ e_src = [z |-> 0, shared |-> FALSE]
    /\ e_dst = {}
    /\ e_before = {}
    /\ e_ret = FALSE
    /\ e_caller = "none"
    /\ nstage = "idle"
    /\ contours_blue = <<>>
    /\ pi_microglial = <<>>
    /\ pi_other = <<>>
    /\ row = <<>>

Spec == Init /\ [][Next]_vars

NextContour ==
    \/ CalcStart /\ UNCHANGED <<cvars, mvars, evars, nvars>>
    \/ CalcStep /\ UNCHANGED <<cvars, mvars, evars, nvars>>
    \/ CalcReturn /\ UNCHANGED <<cvars, mvars, evars, nvars>>
    \/ BinStep /\ UNCHANGED <<cvars, mvars, evars, nvars>>
    \/ BinLoopEnd /\ UNCHANGED <<cvars, mvars, evars, nvars>>
    \/ BinEmit /\ UNCHANGED <<cvars, mvars, evars, nvars>>

\* contourCalc is called on a mask whose contours findContours is about to report
InitContour ==
    /\ hpc = "call"
    /\ channel_type \in ChannelTypes
    /\ \E n \in 0..MaxContours :
          /\ hierarchy \in {HierarchyOf(p) : p \in ParentMaps(n, RetrievalMode(channel_type))}
          /\ area \in [0..(n - 1) -> AreaValues]
          /\ HolesFit(hierarchy, area)
    /\ validity_mask = <<>>
    /\ parent_area = <<>>
    /\ index = 0
    /\ count = [b \in 0..(NUM_AREA_BINS - 1) |-> 0]
    /\ bin_log = <<>>
    /\ contour_cnt = 0
    /\ contour_bins = <<>>
    /\ kind = "idle"
    /\ blue_contours = <<>>
    /\ ci = 1
    /\ target_contours = <<>>
    /\ other_contours = <<>>
    /\ ratio_done = {}
    /\ pc = "idle"
    /\ startup = [argc |-> TRUE, manifest |-> TRUE, err_log |-> TRUE, metrics_file |-> TRUE]
    /\ layers_combined = NUM_Z_LAYERS_COMBINED
    /\ input_images = <<>>
    /\ main_index = 0
    /\ err_list = <<>>
    /\ metrics = <<>>
    /\ exit_status = "none"
    /\ attempted = <<>>
    /\ result = TRUE
    /\ outcomes = <<>>
    /\ entries = 0
    /\ z_count = 0
    /\ z_index = 0
    /\ merged_layer_count = 0
    /\ merge = NoMerge
    /\ enhanced_log = <<>>
    /\ group_log = <<>>
    /\ epc = "idle"
    /\ e_channel = "BLUE"
    /\ e_src = [z |-> 0, shared |-> FALSE]
    /\ e_dst = {}
    /\ e_before = {}
    /\ e_ret = FALSE
    /\ e_caller = "none"
    /\ nstage = "idle"
    /\ contours_blue = <<>>
    /\ pi_microglial = <<>>
    /\ pi_other = <<>>
    /\ row = <<>>

SpecContour == InitContour /\ [][NextContour]_vars

NextClassify ==
    \/ ClassifyStep /\ UNCHANGED <<hvars, mvars, evars, nvars>>
    \/ ClassifyReturn /\ UNCHANGED <<hvars, mvars, evars, nvars>>

\* a classifier is called with a candidate list
InitClassify ==
    /\ kind \in {"microglial", "neural"}
    /\ blue_contours \in UNION {[1..n -> Contours] : n \in 0..MaxCands}
    /\ ci = 1
    /\ target_contours = <<>>
    /\ other_contours = <<>>
    /\ ratio_done = {}
    /\ hpc = "idle"
    /\ channel_type = "BLUE"
    /\ hierarchy = <<>>
    /\ area = <<>>
    /\ validity_mask = <<>>
    /\ parent_area = <<>>
    /\ index = 0
    /\ count = <<>>
    /\ bin_log = <<>>
    /\ contour_cnt = 0
    /\ contour_bins = <<>>
    /\ pc = "idle"
    /\ startup = [argc |-> TRUE, manifest |-> TRUE, err_log |-> TRUE, metrics_file |-> TRUE]
    /\ layers_combined = NUM_Z_LAYERS_COMBINED
    /\ input_images = <<>>
    /\ main_index = 0
    /\ err_list = <<>>
    /\ metrics = <<>>
    /\ exit_status = "none"
    /\ attempted = <<>>
    /\ result = TRUE
    /\ outcomes = <<>>
    /\ entries = 0
    /\ z_count = 0
    /\ z_index = 0
    /\ merged_layer_count = 0
    /\ merge = NoMerge
    /\ enhanced_log = <<>>
    /\ group_log = <<>>
    /\ epc = "idle"
    /\ e_channel = "BLUE"
    /\ e_src = [z |-> 0, shared |-> FALSE]
    /\ e_dst = {}
    /\ e_before = {}
    /\ e_ret = FALSE
    /\ e_caller = "none"
    /\ nstage = "idle"
    /\ contours_blue = <<>>
    /\ pi_microglial = <<>>
    /\ pi_other = <<>>
    /\ row = <<>>

SpecClassify == InitClassify /\ [][NextClassify]_vars

\* the Mats dst can point to when enhanceImage is called: the empty Mat of
\* a fresh local (lines 362-363) and Mats that hold pixels already
DstMasks == {{}, {<<"PREVIOUS", 0>>}, {<<"PREVIOUS", 0>>, <<"PREVIOUS", 1>>}}

\* enhanceImage runs, lines 38-124
EnhanceCall ==
    /\ epc = "call"
    /\ LET r == EnhanceImage(e_channel, e_src.z, e_src.shared, e_dst)
       IN /\ e_ret' = r.ret
          /\ e_dst' = r.dst
    /\ epc' = "returned"
    /\ UNCHANGED <<e_channel, e_src, e_before, e_caller>>

\* the calling statement, if(!enhanceImage(...)) return false, lines 364-378
EnhanceCallerTest ==
    /\ epc = "returned"
    /\ e_caller' = IF ~e_ret THEN "return false" ELSE "continue"
    /\ epc' = "done"
    /\ UNCHANGED <<e_channel, e_src, e_dst, e_before, e_ret>>

NextEnhance ==
    \/ EnhanceCall /\ UNCHANGED <<cvars, hvars, mvars, nvars>>
    \/ EnhanceCallerTest /\ UNCHANGED <<cvars, hvars, mvars, nvars>>

\* enhanceImage is called with a layer, a channel specifier and a destination
InitEnhance ==
    /\ epc = "call"
    /\ e_channel \in ChannelSpecifiers
    /\ e_src \in [z : 0..(MaxLayers - 1), shared : BOOLEAN]
    /\ e_dst \in DstMasks
    /\ e_before = e_dst
    /\ e_ret = FALSE
    /\ e_caller = "none"
    /\ nstage = "idle"
    /\ contours_blue = <<>>
    /\ pi_microglial = <<>>
    /\ pi_other = <<>>
    /\ row = <<>>
    /\ kind = "idle"
    /\ blue_contours = <<>>
    /\ ci = 1
    /\ target_contours = <<>>
    /\ other_contours = <<>>
    /\ ratio_done = {}
    /\ hpc = "idle"
    /\ channel_type = "BLUE"
    /\ hierarchy = <<>>
    /\ area = <<>>
    /\ validity_mask = <<>>
    /\ parent_area = <<>>
    /\ index = 0
    /\ count = <<>>
    /\ bin_log = <<>>
    /\ contour_cnt = 0
    /\ contour_bins = <<>>
    /\ pc = "idle"
    /\ startup = [argc |-> TRUE, manifest |-> TRUE, err_log |-> TRUE, metrics_file |-> TRUE]
    /\ layers_combined = NUM_Z_LAYERS_COMBINED
    /\ input_images = <<>>
    /\ main_index = 0
    /\ err_list = <<>>
    /\ metrics = <<>>
    /\ exit_status = "none"
    /\ attempted = <<>>
    /\ result = TRUE
    /\ outcomes = <<>>
    /\ entries = 0
    /\ z_count = 0
    /\ z_index = 0
    /\ merged_layer_count = 0
    /\ merge = NoMerge
    /\ enhanced_log = <<>>
    /\ group_log = <<>>

SpecEnhance == InitEnhance /\ [][NextEnhance]_vars

\* line 488: the total nuclei count written to the row
TotalNucleiAllContours(microglial, other, blue) == Len(blue)

TotalNuclei(microglial, other, blue) == Len(microglial) + Len(other)

\* the overlap of a contour with the blue-green intersection, in pixels
\* (lines 241-242), sampled like the other pixel counts
GreenOverlaps(c) == {a \in PixelCounts : a <= c.before}

\* lines 487-501: the first classifier has returned; the key, the total and
\* the microglial count are written, and classifyNeuralCells is called on
\* other_contours with the blue-green intersection
NucleiWriteFirst ==
    /\ nstage = "microglial"
    /\ ClassifyDone
    /\ row' = <<TotalNuclei(target_contours, other_contours, contours_blue),
                Len(target_contours)>>
    /\ pi_microglial' = target_contours
    /\ pi_other' = other_contours
    /\ \E green \in [1..Len(other_contours) -> PixelCounts] :
          /\ \A k \in 1..Len(other_contours) :
                green[k] \in GreenOverlaps(contours_blue[other_contours[k]])
          /\ blue_contours' = [k \in 1..Len(other_contours) |->
                                 [contours_blue[other_contours[k]] EXCEPT !.after = green[k]]]
    /\ kind' = "neural"
    /\ ci' = 1
    /\ target_contours' = <<>>
    /\ other_contours' = <<>>
    /\ ratio_done' = {}
    /\ nstage' = "neural"
    /\ UNCHANGED contours_blue

\* lines 503-504: the second classifier has returned; the neural count and
\* the count of the remaining contours are written
NucleiWriteSecond ==
    /\ nstage = "neural"
    /\ ClassifyDone
    /\ row' = row \o <<Len(target_contours), Len(other_contours)>>
    /\ nstage' = "done"
    /\ UNCHANGED <<contours_blue, pi_microglial, pi_other, cvars>>

NextNuclei ==
    \/ ClassifyStep /\ UNCHANGED <<hvars, mvars, evars, nvars>>
    \/ ClassifyReturn /\ UNCHANGED <<hvars, mvars, evars, nvars>>
    \/ NucleiWriteFirst /\ UNCHANGED <<hvars, mvars, evars>>
    \/ NucleiWriteSecond /\ UNCHANGED <<hvars, mvars, evars>>

\* processImage has segmented the blue mask of a group and calls
\* classifyMicroglialCells on its contours, line 485
InitNuclei ==
    /\ nstage = "microglial"
    /\ kind = "microglial"
    /\ blue_contours \in UNION {[1..n -> Contours] : n \in 0..MaxCands}
    /\ contours_blue = blue_contours
    /\ ci = 1
    /\ target_contours = <<>>
    /\ other_contours = <<>>
    /\ ratio_done = {}
    /\ hpc = "idle"
    /\ channel_type = "BLUE"
    /\ hierarchy = <<>>
    /\ area = <<>>
    /\ validity_mask = <<>>
    /\ parent_area = <<>>
    /\ index = 0
    /\ count = <<>>
    /\ bin_log = <<>>
    /\ contour_cnt = 0
    /\ contour_bins = <<>>
    /\ pc = "idle"
    /\ startup = [argc |-> TRUE, manifest |-> TRUE, err_log |-> TRUE, metrics_file |-> TRUE]
    /\ layers_combined = NUM_Z_LAYERS_COMBINED
    /\ input_images = <<>>
    /\ main_index = 0
    /\ err_list = <<>>
    /\ metrics = <<>>
    /\ exit_status = "none"
    /\ attempted = <<>>
    /\ result = TRUE
    /\ outcomes = <<>>
    /\ entries = 0
    /\ z_count = 0
    /\ z_index = 0
    /\ merged_layer_count = 0
    /\ merge = NoMerge
    /\ enhanced_log = <<>>
    /\ group_log = <<>>
    /\ epc = "idle"
    /\ e_channel = "BLUE"
    /\ e_src = [z |-> 0, shared |-> FALSE]
    /\ e_dst = {}
    /\ e_before = {}
    /\ e_ret = FALSE
    /\ e_caller = "none"
    /\ pi_microglial = <<>>
    /\ pi_other = <<>>
    /\ row = <<>>

SpecNuclei == InitNuclei /\ [][NextNuclei]_vars

Range(s) == {s[k] : k \in 1..Len(s)}

(***************************************************************************)
(* Claims about the overlap classifiers (SpecClassify)                     *)
(***************************************************************************)
\* positions of blue_contours the loop has gone past
Processed == 1..(IF ci <= Len(blue_contours) THEN ci - 1 ELSE Len(blue_contours))

InTarget(i) == i \in Range(target_contours)

InOther(i) == i \in Range(other_contours)

\* a position is stored at most once over the two output vectors
NoDuplicates ==
    /\ Cardinality(Range(target_contours)) = Len(target_contours)
    /\ Cardinality(Range(other_contours)) = Len(other_contours)
    /\ Range(target_contours) \cap Range(other_contours) = {}

\* C1 as stated: after the call every contour with arc length below 10 or
\* fewer than 5 points is in the 'other' bucket and not in the target bucket,
\* no coverage ratio was computed for it, and every input contour is in
\* exactly one of the two buckets.
C1_SmallGoesToOther ==
    ClassifyDone =>
        /\ \A i \in 1..Len(blue_contours) :
              IsSmallContour(blue_contours[i]) =>
                  InOther(i) /\ ~InTarget(i) /\ i \notin ratio_done
        /\ \A i \in 1..Len(blue_contours) : InTarget(i) # InOther(i)

\* C1 amended: a contour with arc length below 10 or fewer than 5 points is
\* placed in neither bucket and no coverage ratio is computed for it; every
\* other contour the loop has passed is in exactly one bucket, and no contour
\* is stored twice.
C1_SmallIsDropped ==
    /\ NoDuplicates
    /\ Range(target_contours) \cup Range(other_contours) \subseteq Processed
    /\ \A i \in Processed :
          IF IsSmallContour(blue_contours[i])
          THEN ~InOther(i) /\ ~InTarget(i) /\ i \notin ratio_done
          ELSE InTarget(i) # InOther(i)

\* C1 witness: a finished call that met a small contour and a contour that
\* passes the filter.
C1_Witness ==
    /\ ClassifyDone
    /\ \E i, j \in 1..Len(blue_contours) :
          /\ IsSmallContour(blue_contours[i])
          /\ blue_contours[i].arc = 8 /\ blue_contours[i].npts = 4
          /\ ~IsSmallContour(blue_contours[j])

\* C2 as stated: a contour that passes the small-contour filter and whose
\* rasterisation has no foreground pixel (before = 0) is put in 'other' and
\* never in the target bucket.
C2_ZeroPixelsGoToOther ==
    \A i \in Processed :
        (~IsSmallContour(blue_contours[i]) /\ blue_contours[i].before = 0)
            => (InOther(i) /\ ~InTarget(i))

\* C3: a contour that passes the filter and has before > 0 is in 'other'
\* exactly when after/before is strictly below the threshold (3/10 for
\* microglial, 2/10 for neural), in the target bucket otherwise, never in both.
RatioBelowThreshold(k, c) ==
    IF k = "microglial" THEN 10 * c.after < 3 * c.before
    ELSE 10 * c.after < 2 * c.before

C3_ThresholdSplit ==
    \A i \in Processed :
        LET c == blue_contours[i] IN
        (~IsSmallContour(c) /\ c.before > 0) =>
            /\ InOther(i) = RatioBelowThreshold(kind, c)
            /\ InTarget(i) = ~RatioBelowThreshold(kind, c)
            /\ (c.after = c.before => InTarget(i))

\* C3 witness: a finished microglial call with a contour whose ratio is
\* exactly 3/10 in the target bucket and a contour of ratio 2/10 in 'other';
RatioIs(c, num, den) == c.before > 0 /\ den * c.after = num * c.before

C3_Witness ==
    /\ ClassifyDone
    /\ kind = "microglial"
    /\ \E i, j \in 1..Len(blue_contours) :
          /\ ~IsSmallContour(blue_contours[i]) /\ ~IsSmallContour(blue_contours[j])
          /\ RatioIs(blue_contours[i], 3, 10) /\ InTarget(i)
          /\ RatioIs(blue_contours[j], 2, 10) /\ InOther(j)

(***************************************************************************)
(* Claims about contourCalc and binArea (SpecContour)                      *)
(***************************************************************************)
\* contour indices whose iteration of contourCalc's loop has completed
CalcProcessed ==
    IF hpc = "loop" THEN 0..(index - 1)
    ELSE IF hpc \in {"bin", "emit", "done"} THEN DOMAIN validity_mask
    ELSE {}

\* the holes of contour i, by their parent links
HolesOf(i) == {j \in DOMAIN hierarchy : ParentOf(hierarchy, j) = i}

\* outer area minus the areas of the holes, in half units
NetAreaOf(i) == area[i] - SumOver(area, HolesOf(i))

Labelled(l) == {i \in DOMAIN validity_mask : validity_mask[i] = l}

TopLevel == {i \in DOMAIN hierarchy : ParentOf(hierarchy, i) = -1}

\* C4: in full-hierarchy mode every accepted top-level contour stores its
\* outer area minus the areas of its holes and is labelled PARENT_CNTR, and
\* of its holes exactly those with nonzero area are labelled CHILD_CNTR; one
\* accepted outer shape with H nonzero holes gives one PARENT_CNTR label and
\* H CHILD_CNTR labels.
C4_NetAreaAndHoleLabels ==
    RetrievalMode(channel_type) = "RETR_CCOMP" =>
        /\ \A i \in CalcProcessed \cap TopLevel :
              validity_mask[i] = "PARENT_CNTR" =>
                  /\ parent_area[i] = NetAreaOf(i)
                  /\ \A j \in HolesOf(i) :
                        (validity_mask[j] = "CHILD_CNTR") = (area[j] # 0)
        /\ (hpc = "done" /\ Cardinality(TopLevel) = 1
              /\ \A i \in TopLevel : NetAreaOf(i) >= MIN_AREA_HALVES) =>
              /\ Cardinality(Labelled("PARENT_CNTR")) = 1
              /\ Cardinality(Labelled("CHILD_CNTR")) =
                     Cardinality({j \in DOMAIN hierarchy :
                                     ParentOf(hierarchy, j) # -1 /\ area[j] # 0})

\* C4 witness: a finished call on one outer shape with two holes, one of
\* them of zero area, the outer shape accepted with a net area below its
\* outer area.
C4_Witness ==
    /\ hpc = "done"
    /\ RetrievalMode(channel_type) = "RETR_CCOMP"
    /\ Cardinality(TopLevel) = 1
    /\ \E i \in TopLevel :
          /\ validity_mask[i] = "PARENT_CNTR"
          /\ parent_area[i] < area[i]
          /\ Cardinality(HolesOf(i)) = 2
          /\ \E j \in HolesOf(i) : area[j] = 0 /\ validity_mask[j] = "INVALID_CNTR"
          /\ \E j \in HolesOf(i) : area[j] # 0 /\ validity_mask[j] = "CHILD_CNTR"

\* C5: a top-level contour is accepted exactly when its net area is at least
\* the minimum area; a top-level contour that is not accepted stays
\* INVALID_CNTR with stored area 0, and so do all of its holes.
C5_AcceptedIffNetAreaAtLeastMin ==
    \A i \in CalcProcessed \cap TopLevel :
        /\ (validity_mask[i] = "PARENT_CNTR") = (NetAreaOf(i) >= MIN_AREA_HALVES)
        /\ (area[i] < MIN_AREA_HALVES \/ NetAreaOf(i) < MIN_AREA_HALVES) =>
              \A j \in {i} \cup HolesOf(i) :
                  validity_mask[j] = "INVALID_CNTR" /\ parent_area[j] = 0

\* C5 witness: a finished call with one contour accepted at a net area equal
\* to the minimum, and one rejected, with a nonzero hole, at a net area half a
\* unit below it although its outer area reaches the minimum.
C5_Witness ==
    /\ hpc = "done"
    /\ \E i, k \in TopLevel :
          /\ NetAreaOf(i) = MIN_AREA_HALVES
          /\ validity_mask[i] = "PARENT_CNTR"
          /\ area[k] >= MIN_AREA_HALVES
          /\ NetAreaOf(k) = MIN_AREA_HALVES - 1
          /\ validity_mask[k] = "INVALID_CNTR"
          /\ \E j \in HolesOf(k) : area[j] # 0 /\ validity_mask[j] = "INVALID_CNTR"

RECURSIVE SeqSum(_)
SeqSum(q) == IF q = <<>> THEN 0 ELSE Head(q) + SeqSum(Tail(q))

\* C6: binArea never counts in a bin outside 0..NUM_AREA_BINS-1, emits exactly
\* NUM_AREA_BINS counters, and returns a total equal to the number of
\* PARENT_CNTR labels and to the sum of the emitted counters.
C6_BinsSumToAccepted ==
    /\ hpc \in {"bin", "emit", "done"} => DOMAIN count = 0..(NUM_AREA_BINS - 1)
    /\ \A i \in DOMAIN bin_log : bin_log[i] \in 0..(NUM_AREA_BINS - 1)
    /\ (hpc = "done" /\ RetrievalMode(channel_type) = "RETR_CCOMP") =>
          /\ Len(contour_bins) = NUM_AREA_BINS
          /\ contour_cnt = Cardinality(Labelled("PARENT_CNTR"))
          /\ contour_cnt = SeqSum(contour_bins)
          /\ DOMAIN bin_log = Labelled("PARENT_CNTR")

\* C6 witness: a finished binArea with two accepted contours, one of them
\* beyond the last bin's lower edge by more than a bin width.
C6_Witness ==
    /\ hpc = "done"
    /\ contour_cnt = 2
    /\ \E i \in DOMAIN bin_log :
          parent_area[i] >= 2 * NUM_AREA_BINS * BIN_AREA /\ bin_log[i] = NUM_AREA_BINS - 1

\* an area in half units, rounded half away from zero
RoundHalfAway(a) == (a \div 2) + (a % 2)

\* C7: an accepted contour is counted in bin floor(r / 25), r its area rounded
\* half away from zero, and in bin 20 when r >= 500, so bin k < 20 holds the
\* areas with 25k <= r < 25(k+1) as the header labels say; an accepted area
\* of 100 is counted in bin 4; a 400 outer contour with a 25 hole gives one
\* PARENT_CNTR of area 375, one CHILD_CNTR, bin 15 incremented and total 1.
C7_BinOfRoundedArea ==
    /\ \A i \in DOMAIN bin_log :
          LET r == RoundHalfAway(parent_area[i])
              k == bin_log[i]
          IN /\ k = (IF r >= 500 THEN 20 ELSE r \div 25)
             /\ k < NUM_AREA_BINS - 1 => (HeaderLow(k) <= r /\ r < HeaderHigh(k))
             /\ k = NUM_AREA_BINS - 1 => r >= LastHeaderLow
             /\ parent_area[i] = 200 => k = 4
    /\ (/\ hpc = "done"
        /\ RetrievalMode(channel_type) = "RETR_CCOMP"
        /\ NumContours(hierarchy) = 2
        /\ \E i, j \in DOMAIN hierarchy :
              ParentOf(hierarchy, j) = i /\ area[i] = 800 /\ area[j] = 50) =>
          /\ \E i, j \in DOMAIN hierarchy :
                /\ validity_mask[i] = "PARENT_CNTR" /\ parent_area[i] = 750
                /\ validity_mask[j] = "CHILD_CNTR" /\ bin_log = (i :> 15)
          /\ contour_cnt = 1
          /\ contour_bins[16] = 1

\* C7 witness: the 400 outer contour with the 25 hole, binned.
C7_Witness ==
    /\ hpc = "done"
    /\ NumContours(hierarchy) = 2
    /\ \E i, j \in DOMAIN hierarchy :
          /\ ParentOf(hierarchy, j) = i /\ area[i] = 800 /\ area[j] = 50
          /\ bin_log = (i :> 15)
    /\ contour_cnt = 1

\* C14: after contourCalc returns on a non-empty contour list the label
\* vector and the area vector have one entry per contour index, and a contour
\* with a parent link is never a region of its own: it is never PARENT_CNTR,
\* its stored area is 0, and it is CHILD_CNTR exactly when its area is nonzero
\* and its top-level parent is PARENT_CNTR, INVALID_CNTR otherwise.
C14_HolesNeverEvaluated ==
    (hpc \in {"bin", "emit", "done"} /\ NumContours(hierarchy) > 0) =>
        /\ DOMAIN validity_mask = DOMAIN hierarchy
        /\ DOMAIN parent_area = DOMAIN hierarchy
        /\ \A j \in DOMAIN hierarchy :
              ParentOf(hierarchy, j) > -1 =>
                  /\ validity_mask[j] # "PARENT_CNTR"
                  /\ parent_area[j] = 0
                  /\ validity_mask[j] =
                        IF area[j] # 0
                           /\ validity_mask[ParentOf(hierarchy, j)] = "PARENT_CNTR"
                        THEN "CHILD_CNTR" ELSE "INVALID_CNTR"

\* C14 witness: a returned call in which a hole large enough to be a region
\* of its own stays INVALID_CNTR under a rejected parent, beside an accepted
\* top-level contour.
C14_Witness ==
    /\ hpc = "done"
    /\ \E i, k \in TopLevel :
          /\ validity_mask[i] = "PARENT_CNTR"
          /\ validity_mask[k] = "INVALID_CNTR"
          /\ \E j \in HolesOf(k) :
                /\ area[j] >= MIN_AREA_HALVES
                /\ validity_mask[j] = "INVALID_CNTR"
                /\ parent_area[j] = 0

(***************************************************************************)
(* Claim about the nuclei counts of a row (SpecNuclei)                     *)
(***************************************************************************)

\* C15: in a row whose four nuclei counts are written, the total nuclei
\* count is the sum of the microglial, the neural and the other count; the
\* list the neural classifier ran on is the 'other' list of the microglial
\* classifier, and each contour of it is in exactly one of the two buckets
\* of the neural classifier.
C15_TotalIsSumOfBuckets ==
    nstage = "done" =>
       /\ Len(row) = 4
       /\ row[1] = row[2] + row[3] + row[4]
       /\ row[2] = Len(pi_microglial)
       /\ Len(blue_contours) = Len(pi_other)
       /\ \A k \in 1..Len(blue_contours) : InTarget(k) # InOther(k)
       /\ NoDuplicates
       /\ row[3] = Len(target_contours)
       /\ row[4] = Len(other_contours)

\* C15 witness: of two blue contours one was skipped as small by the first
\* classifier and the other went through 'other' to the neural bucket.
C15_Witness ==
    /\ nstage = "done"
    /\ Len(contours_blue) = 2
    /\ \E i \in 1..2 : IsSmallContour(contours_blue[i])
    /\ row = <<1, 0, 1, 0>>

(***************************************************************************)
(* Claim about enhanceImage (SpecEnhance)                                  *)
(***************************************************************************)

\* C11: once enhanceImage has returned, a channel specifier that is none of
\* BLUE, GREEN, RED, RED_LOW, RED_HIGH has given the value false and left
\* the destination mask as it was at the call, and any of the five has
\* given the value true and the destination holds the enhanced mask of the
\* source layer; the calling statement of processImage returns false
\* exactly when the enhancer returned false.
C11_EnhancerContract ==
    /\ epc \in {"returned", "done"} =>
          IF e_channel \in ChannelTypes
          THEN /\ e_ret = TRUE
               /\ e_dst = EnhancedMask(e_channel, e_src.z, e_src.shared)
          ELSE /\ e_ret = FALSE
               /\ e_dst = e_before
    /\ epc = "done" => (e_caller = "return false" <=> ~e_ret)
    /\ epc = "done" => (e_caller = "continue" <=> e_ret)

C11_Witness ==
    /\ epc = "done"
    /\ e_channel \notin ChannelTypes
    /\ e_before # {}
    /\ e_dst = e_before
    /\ e_caller = "return false"

(***************************************************************************)
(* Claims about main and processImage (Spec)                               *)
(***************************************************************************)
\* C12: once startup is over, if the manifest, the error log or the metrics
\* file could not be opened then main has returned a nonzero status, no
\* processImage call was made and nothing was written; and if main was
\* started with its argument and all three opened, the metrics file begins
\* with the header row and holds no second header row.
C12_StartupAbortsOrWritesHeaderFirst ==
    pc # "start" =>
       /\ ~(startup.manifest /\ startup.err_log /\ startup.metrics_file) =>
              /\ pc = "exit"
              /\ exit_status # 0
              /\ attempted = <<>>
              /\ metrics = <<>>
              /\ err_list = <<>>
       /\ (startup.argc /\ startup.manifest /\ startup.err_log
              /\ startup.metrics_file) =>
              /\ Len(metrics) >= 1
              /\ metrics[1].image = "header"
              /\ \A k \in 2..Len(metrics) : metrics[k].image # "header"

C12_Witness ==
    /\ pc = "exit"
    /\ startup.argc /\ startup.manifest /\ startup.err_log
    /\ ~startup.metrics_file
    /\ exit_status = -1
    /\ Len(input_images) > 0
    /\ attempted = <<>>

InProcessImage == pc \in {"pi_open", "pi_opendir", "pi_load", "pi_merge", "returned"}

\* the names of the finished calls that returned false, in order
RECURSIVE FailedNames(_)
FailedNames(n) ==
    IF n = 0 THEN <<>>
    ELSE IF outcomes[n] THEN FailedNames(n - 1)
    ELSE Append(FailedNames(n - 1), attempted[n])

\* C8: the batch loop calls processImage once per manifest entry, in manifest
\* order; the error log holds exactly the names of the calls that failed, in
\* order, so a failure never stops the loop; and once the streams are open
\* main returns 0 after the last entry.
C8_EveryImageAttemptedOnce ==
    /\ Len(attempted) <= Len(input_images)
    /\ attempted = SubSeq(input_images, 1, Len(attempted))
    /\ Len(outcomes) = main_index
    /\ Len(attempted) = main_index + (IF InProcessImage THEN 1 ELSE 0)
    /\ err_list = FailedNames(Len(outcomes))
    /\ (pc = "exit" /\ metrics # <<>>) =>
          /\ exit_status = 0
          /\ attempted = input_images
          /\ Len(outcomes) = Len(input_images)

\* C8 witness: main has returned 0 after a manifest of two images, the first
\* of which failed and the second of which was processed and wrote rows.
C8_Witness ==
    /\ pc = "exit"
    /\ exit_status = 0
    /\ Len(input_images) = 2
    /\ outcomes = <<FALSE, TRUE>>
    /\ err_list = <<input_images[1]>>
    /\ Len(metrics) > 1

\* C9 as stated: a call of processImage on a directory with more than 99
\* entries returns failure, whatever the count.
C9_MoreThan99LayersFail ==
    (pc = "returned" /\ entries > 99) => ~result

\* the merged masks of layer group g (1-based) as the claim gives them: per
\* channel the union of the enhanced masks of layers (g-1)*N .. min(g*N, z)-1
GroupLayers(g) ==
    {z \in 0..(z_count - 1) :
        (g - 1) * layers_combined <= z /\ z < g * layers_combined}

ExpectedGroupMask(g) ==
    [ch \in ChannelTypes |-> UNION {enhanced_log[z][ch] : z \in GroupLayers(g)}]

\* the rows written by the call for manifest position k, in file order
RowsOfCall(k) == SelectSeq(metrics, LAMBDA r : r.call = k)

CeilDiv(z, n) == (z + n - 1) \div n

\* the rows of the call that has just returned are keyed <name>_1 .. <name>_n
RowsKeyedUpTo(n) ==
    LET rows == RowsOfCall(main_index + 1)
    IN /\ Len(rows) = n
       /\ \A g \in 1..Len(rows) :
             /\ rows[g].image = input_images[main_index + 1]
             /\ rows[g].layer = g

\* the rows of the file are grouped by call, in manifest order
RowsInManifestOrder ==
    \A k \in 1..(Len(metrics) - 1) : metrics[k].call <= metrics[k + 1].call

\* C13 as stated: a call of processImage that returns success on a directory
\* of z depth layers has appended exactly ceil(z / N) rows, keyed <image>_1
\* to <image>_ceil(z / N) in ascending order, N being the number of layers
\* combined per group; and the rows of one image all precede the rows of the
\* next image of the manifest.
C13_RowsPerLayerGroup ==
    /\ RowsInManifestOrder
    /\ (pc = "returned" /\ result) =>
          RowsKeyedUpTo(CeilDiv(entries, layers_combined))

\* what does hold: the same with the 8-bit z_count in place of the number of
\* layers, the two being equal up to 255 entries
RowsFollowCountedLayers ==
    /\ RowsInManifestOrder
    /\ (pc = "pi_merge" /\ z_index = z_count) =>
          RowsKeyedUpTo(CeilDiv(z_count, layers_combined))
    /\ (pc = "returned" /\ result) =>
          RowsKeyedUpTo(CeilDiv(Uint8(entries), layers_combined))

\* no name occurs twice in the manifest
NamesDistinct ==
    \A i, j \in 1..Len(input_images) :
        input_images[i] = input_images[j] => i = j

C10_GroupMaskIsOrOfItsLayers ==
    pc = "pi_merge" =>
        /\ \A g \in 1..Len(group_log) : group_log[g] = ExpectedGroupMask(g)
        /\ Len(group_log) =
              IF z_index = z_count
              THEN (z_count + layers_combined - 1) \div layers_combined
              ELSE z_index \div layers_combined
        /\ merged_layer_count = Len(group_log)

\* C10 witness: three layers merged two at a time, both groups written, the
\* first holding a shared pixel that the second does not.
C10_Witness ==
    /\ pc = "pi_merge"
    /\ layers_combined = 2
    /\ z_count = 3
    /\ z_index = z_count
    /\ Len(group_log) = 2
    /\ <<"BLUE", -1>> \in group_log[1]["BLUE"]
    /\ <<"BLUE", -1>> \notin group_log[2]["BLUE"]
    /\ <<"BLUE", 1>> \in group_log[1]["BLUE"]

=============================================================================
